---- MODULE Spec2Model ----
(***************************************************************************)
(* Model of src/partition.py: the usage-driven partition recommendation    *)
(* pipeline (main and the functions it calls).  Strings that the program   *)
(* builds or parses (column names, the partition spec, trino's stdout) are *)
(* sequences of one-character strings; a Python dict or Counter is the     *)
(* sequence of its <<key, value>> items in insertion order.                *)
(***************************************************************************)
EXTENDS Integers, Sequences, FiniteSets, TLC

(* ------------------------------------------------------------------ *)
(* Program constants                                                  *)
(* ------------------------------------------------------------------ *)
HIGH_CARDINALITY_THRESHOLD == 100000
LOW_CARDINALITY_THRESHOLD == 1000
USAGE_THRESHOLD == 50
BUCKET_COUNT == <<"1", "6">>

(* ------------------------------------------------------------------ *)
(* Bounds of the model                                                *)
(* ------------------------------------------------------------------ *)
MaxLines == 2
MaxDecisions == 2

(* ------------------------------------------------------------------ *)
(* Values                                                             *)
(* ------------------------------------------------------------------ *)
ColA == <<"i", "d">>
ColB == <<"t", "s">>
Cols == {ColA, ColB}

\* The roles of the record extract_columns_metadata returns, in the order
\* main updates the counters and builds the usage_stats columns.
Roles == <<"select", "where", "join", "group_by", "order_by">>

Range(s) == {s[i] : i \in DOMAIN s}

\* k copies of x: a column referenced k times in one clause.
Rep(x, k) == [i \in 1..k |-> x]

(* ------------------------------------------------------------------ *)
(* Python dict / Counter                                              *)
(* ------------------------------------------------------------------ *)
DictKeys(d) == [i \in DOMAIN d |-> d[i][1]]

DictHas(d, k) == \E i \in DOMAIN d : d[i][1] = k

DictGet(d, k, default) ==
    IF DictHas(d, k) THEN d[CHOOSE i \in DOMAIN d : d[i][1] = k][2] ELSE default

DictSet(d, k, v) ==
    IF DictHas(d, k)
    THEN [i \in DOMAIN d |-> IF d[i][1] = k THEN <<k, v>> ELSE d[i]]
    ELSE Append(d, <<k, v>>)

\* The keys of a dict after the keys of `keys` were inserted one by one: a
\* key not yet present goes to the end, at its first occurrence.
AppendNew(index, keys) ==
    LET IsNew(i) == /\ keys[i] \notin Range(index)
                    /\ \A j \in 1..(i - 1) : keys[j] # keys[i]
        firsts == SelectSeq([i \in DOMAIN keys |-> i], IsNew)
    IN index \o [k \in DOMAIN firsts |-> keys[firsts[k]]]

Occurrences(elems, x) == Cardinality({i \in DOMAIN elems : elems[i] = x})

\* Variant: a column counted once per record, however often the record
\* names it.
CounterUpdateOncePerRecord(c, elems) ==
    LET keys == AppendNew(DictKeys(c), elems) IN
    [ k \in DOMAIN keys |->
        <<keys[k], DictGet(c, keys[k], 0)
                     + (IF keys[k] \in Range(elems) THEN 1 ELSE 0)>> ]

\* Counter.update(iterable): one increment per element, left to right; a
\* new key enters the Counter when its first element is counted.
CounterUpdate(c, elems) ==
    LET keys == AppendNew(DictKeys(c), elems) IN
    [ k \in DOMAIN keys |->
        <<keys[k], DictGet(c, keys[k], 0) + Occurrences(elems, keys[k])>> ]

\* dict.get(key, default) on the mapping the SQL parser returns.
Get(m, key, default) == IF key \in DOMAIN m THEN m[key] ELSE default

(* ------------------------------------------------------------------ *)
(* Inputs: the query log in the S3 object                             *)
(* ------------------------------------------------------------------ *)
\* What Parser(sql).columns_dict holds for the queries of the log: a
\* mapping from the parser's clause names to column lists; a clause the
\* query does not have is absent from the mapping.
ColumnsDicts ==
    { ("select" :> <<ColA>>) @@ ("where" :> Rep(ColA, USAGE_THRESHOLD)),
      ("select" :> <<ColA>>) @@ ("where" :> Rep(ColA, USAGE_THRESHOLD))
          @@ ("joins" :> <<ColA>>),
      ("select" :> Rep(ColB, USAGE_THRESHOLD + 1)),
      ("where" :> Rep(ColB, USAGE_THRESHOLD + 1)),
      ("groupby" :> <<ColB, ColB>>) @@ ("orderby" :> <<ColA>>),
      ("select" :> <<ColA, ColB>>) @@ ("where" :> <<ColB, ColA>>)
          @@ ("joins" :> <<ColA>>) @@ ("groupby" :> <<ColB>>)
          @@ ("orderby" :> <<ColB, ColB>>) }

NoColumns == << >>

\* A query of the log: one the SQL parser handles, or one it raises on.
Queries ==
    { [parses |-> TRUE, columns_dict |-> d] : d \in ColumnsDicts }
    \cup { [parses |-> FALSE, columns_dict |-> NoColumns] }

UnparseableQuery == [parses |-> FALSE, columns_dict |-> NoColumns]

\* A line of the log: a JSON object with an "sql" key, or text json.loads
\* rejects.
Lines ==
    { [json |-> TRUE, sql |-> q] : q \in Queries }
    \cup { [json |-> FALSE, sql |-> UnparseableQuery] }

SeqsUpTo(S, n) == UNION { [1..k -> S] : k \in 0..n }

LogContents == SeqsUpTo(Lines, MaxLines)

(* ------------------------------------------------------------------ *)
(* State                                                              *)
(* ------------------------------------------------------------------ *)
VARIABLES
    pc,                \* position of main
    log_content,       \* the downloaded log, as its lines
    df_logs,           \* rows of df_logs: the 'sql' value of each kept entry
    has_sql,           \* whether df_logs has an 'sql' column
    parsed_columns,    \* df_logs['parsed_columns'], row by row
    idx,               \* rows consumed by the loop main is in
    counters,          \* the five Counters, by role
    usage_stats,       \* rows of usage_stats
    cardinality,       \* the cardinality dict
    proc,              \* the trino subprocess main is waiting for
    merged_stats,      \* rows of merged_stats
    partition_columns, \* the decision list
    partition_spec,    \* the rendered spec string
    trino_calls,       \* every trino invocation made so far
    stdout             \* what the run has printed

vars == << pc, log_content, df_logs, has_sql, parsed_columns, idx, counters,
           usage_stats, cardinality, proc, merged_stats, partition_columns,
           partition_spec, trino_calls, stdout >>

NoProc == [kind |-> "none", returncode |-> 0, out |-> << >>]

EmptyCounters == [r \in Range(Roles) |-> << >>]

Init ==
    /\ pc = "download"
    /\ log_content = << >>
    /\ df_logs = << >>
    /\ has_sql = FALSE
    /\ parsed_columns = << >>
    /\ idx = 0
    /\ counters = EmptyCounters
    /\ usage_stats = << >>
    /\ cardinality = << >>
    /\ proc = NoProc
    /\ merged_stats = << >>
    /\ partition_columns = << >>
    /\ partition_spec = << >>
    /\ trino_calls = << >>
    /\ stdout = << >>

(* ------------------------------------------------------------------ *)
(* Steps 1 and 2: download, parse, extract                            *)
(* ------------------------------------------------------------------ *)
\* download_logs: the content of the S3 object.
DownloadLogs ==
    /\ pc = "download"
    /\ \E content \in LogContents : log_content' = content
    /\ pc' = "parse"
    /\ UNCHANGED << df_logs, has_sql, parsed_columns, idx, counters,
                    usage_stats, cardinality, proc, merged_stats,
                    partition_columns, partition_spec, trino_calls, stdout >>

\* The entries json.loads accepts, in log order.
RECURSIVE JsonEntries(_)
JsonEntries(lines) ==
    IF lines = << >> THEN << >>
    ELSE IF Head(lines).json
         THEN <<Head(lines).sql>> \o JsonEntries(Tail(lines))
         ELSE JsonEntries(Tail(lines))

\* parse_logs: pd.DataFrame(logs) has the columns of the entries, so none
\* at all when no line was kept.
ParseLogs ==
    /\ pc = "parse"
    /\ df_logs' = JsonEntries(log_content)
    /\ has_sql' = (JsonEntries(log_content) # << >>)
    /\ pc' = "extract"
    /\ UNCHANGED << log_content, parsed_columns, idx, counters, usage_stats,
                    cardinality, proc, merged_stats, partition_columns,
                    partition_spec, trino_calls, stdout >>

\* extract_columns_metadata on a query the parser handles.
extract_columns_metadata(sql) ==
    [ r \in Range(Roles) |->
        CASE r = "select"   -> Get(sql.columns_dict, "select", << >>)
          [] r = "where"    -> Get(sql.columns_dict, "where", << >>)
          [] r = "join"     -> Get(sql.columns_dict, "joins", << >>)
          [] r = "group_by" -> Get(sql.columns_dict, "groupby", << >>)
          [] r = "order_by" -> Get(sql.columns_dict, "orderby", << >>) ]

\* df_logs['sql'].apply(extract_columns_metadata): a KeyError when the
\* frame has no 'sql' column, the parser's exception when a query cannot be
\* parsed; neither is caught, so main ends there.
ExtractColumns ==
    /\ pc = "extract"
    /\ IF ~has_sql
       THEN /\ pc' = "aborted"
            /\ UNCHANGED parsed_columns
       ELSE IF \E i \in DOMAIN df_logs : ~df_logs[i].parses
       THEN /\ pc' = "aborted"
            /\ UNCHANGED parsed_columns
       ELSE /\ pc' = "aggregate"
            /\ parsed_columns' =
                 [i \in DOMAIN df_logs |-> extract_columns_metadata(df_logs[i])]
    /\ UNCHANGED << log_content, df_logs, has_sql, idx, counters, usage_stats,
                    cardinality, proc, merged_stats, partition_columns,
                    partition_spec, trino_calls, stdout >>

(* ------------------------------------------------------------------ *)
(* Step 3: aggregate usage                                            *)
(* ------------------------------------------------------------------ *)
\* One iteration of the loop over df_logs.iterrows().
AggregateRow ==
    /\ pc = "aggregate"
    /\ idx < Len(parsed_columns)
    /\ LET cols == parsed_columns[idx + 1] IN
       counters' = [r \in Range(Roles) |-> CounterUpdate(counters[r], cols[r])]
    /\ idx' = idx + 1
    /\ UNCHANGED << pc, log_content, df_logs, has_sql, parsed_columns,
                    usage_stats, cardinality, proc, merged_stats,
                    partition_columns, partition_spec, trino_calls, stdout >>

\* The index pandas gives a frame built from a dict of dicts: the union of
\* the dicts' keys, each key at its first appearance, the dicts taken in the
\* order of the frame's columns.
\* Variant: the where Counter taken before the select Counter.
UnionIndexWhereFirst(cs, roles) ==
    LET Keys(r) == DictKeys(cs[r]) IN
    AppendNew(AppendNew(AppendNew(AppendNew(Keys("where"), Keys("select")),
                                  Keys("join")), Keys("group_by")),
              Keys("order_by"))

RECURSIVE UnionIndex(_, _)
UnionIndex(cs, roles) ==
    IF roles = << >> THEN << >>
    ELSE AppendNew(UnionIndex(cs, SubSeq(roles, 1, Len(roles) - 1)),
                   DictKeys(cs[roles[Len(roles)]]))

\* pd.DataFrame({...}).fillna(0).astype(int).reset_index(): one row per key
\* of the index, a missing count filled with 0.
UsageStats(cs) ==
    LET index == UnionIndex(cs, Roles) IN
    [ i \in DOMAIN index |->
        [ column |-> index[i],
          counts |-> [r \in Range(Roles) |-> DictGet(cs[r], index[i], 0)] ] ]

\* The end of the aggregation loop and the construction of usage_stats.
BuildUsageStats ==
    /\ pc = "aggregate"
    /\ idx = Len(parsed_columns)
    /\ usage_stats' = UsageStats(counters)
    /\ idx' = 0
    /\ pc' = "cardinality"
    /\ UNCHANGED << log_content, df_logs, has_sql, parsed_columns, counters,
                    cardinality, proc, merged_stats, partition_columns,
                    partition_spec, trino_calls, stdout >>

(* ------------------------------------------------------------------ *)
(* Step 4: fetch cardinality                                          *)
(* ------------------------------------------------------------------ *)
\* A cardinality value: an integer, or none (Python's None, pandas' NaN).
Known(n) == [known |-> TRUE, value |-> n]
Unknown == [known |-> FALSE, value |-> 0]

DigitChars == {"0", "1", "2", "3", "4", "5", "6", "7", "8", "9"}

DigitValue(ch) ==
    CASE ch = "0" -> 0 [] ch = "1" -> 1 [] ch = "2" -> 2 [] ch = "3" -> 3
      [] ch = "4" -> 4 [] ch = "5" -> 5 [] ch = "6" -> 6 [] ch = "7" -> 7
      [] ch = "8" -> 8 [] ch = "9" -> 9

DigitChar(d) ==
    CASE d = 0 -> "0" [] d = 1 -> "1" [] d = 2 -> "2" [] d = 3 -> "3"
      [] d = 4 -> "4" [] d = 5 -> "5" [] d = 6 -> "6" [] d = 7 -> "7"
      [] d = 8 -> "8" [] d = 9 -> "9"

\* The decimal text trino prints for a count.
RECURSIVE Str(_)
Str(n) == IF n < 10 THEN <<DigitChar(n)>>
          ELSE Append(Str(n \div 10), DigitChar(n % 10))

RECURSIVE DecimalValue(_)
DecimalValue(text) ==
    IF text = << >> THEN 0
    ELSE 10 * DecimalValue(SubSeq(text, 1, Len(text) - 1))
         + DigitValue(text[Len(text)])

\* int(text) inside the try: the number, or none when int raises.
ParseInt(text) ==
    IF text # << >> /\ \A i \in DOMAIN text : text[i] \in DigitChars
    THEN Known(DecimalValue(text))
    ELSE Unknown

\* What subprocess.run can do: the process exits with a status and an
\* output (its lines, after strip and split), the launch raises OSError, or
\* the process never exits (the call passes no timeout).
Exit(rc, out) == [kind |-> "exit", returncode |-> rc, out |-> out]
LaunchError == [kind |-> "oserror", returncode |-> 0, out |-> << >>]
Hang == [kind |-> "hang", returncode |-> 0, out |-> << >>]

NoOutput == << << >> >>

CountOutputs ==
    { <<Str(0)>>,
      <<Str(LOW_CARDINALITY_THRESHOLD - 1)>>,
      <<Str(LOW_CARDINALITY_THRESHOLD)>>,
      <<Str(HIGH_CARDINALITY_THRESHOLD)>>,
      <<Str(HIGH_CARDINALITY_THRESHOLD + 1)>>,
      << <<"_", "c", "o", "l", "0">>, Str(HIGH_CARDINALITY_THRESHOLD + 1) >>,
      << <<"N", "U", "L", "L">> >>,
      NoOutput }

CountOutcomes ==
    { Exit(0, out) : out \in CountOutputs }
    \cup { Exit(1, NoOutput), LaunchError, Hang }

DdlOutcomes == { Exit(0, NoOutput), Exit(1, NoOutput), LaunchError, Hang }

\* The value get_column_cardinality returns once the process has exited.
get_column_cardinality(result) ==
    IF result.returncode = 0
    THEN ParseInt(result.out[Len(result.out)])
    ELSE Unknown

\* `if count:` in main.
Truthy(count) == count.known /\ count.value # 0

\* main calls get_column_cardinality for the next column, which starts
\* trino and waits for it.
CallCardinality ==
    /\ pc = "cardinality"
    /\ idx < Len(usage_stats)
    /\ \E outcome \in CountOutcomes : proc' = outcome
    /\ trino_calls' = Append(trino_calls, <<"count", usage_stats[idx + 1].column>>)
    /\ pc' = "cardinality_wait"
    /\ UNCHANGED << log_content, df_logs, has_sql, parsed_columns, idx,
                    counters, usage_stats, cardinality, merged_stats,
                    partition_columns, partition_spec, stdout >>

\* subprocess.run returns or raises; get_column_cardinality returns and
\* main stores a truthy count.
ReturnCardinality ==
    /\ pc = "cardinality_wait"
    /\ proc.kind # "hang"
    /\ LET column == usage_stats[idx + 1].column
           count == get_column_cardinality(proc)
       IN IF proc.kind = "oserror"
          THEN /\ pc' = "aborted"
               /\ UNCHANGED << idx, cardinality, stdout >>
          ELSE /\ pc' = "cardinality"
               /\ idx' = idx + 1
               /\ cardinality' = IF Truthy(count)
                                 THEN DictSet(cardinality, column, count)
                                 ELSE cardinality
               /\ stdout' = IF proc.returncode = 0 THEN stdout
                            ELSE Append(stdout, <<"Error fetching cardinality", column>>)
    /\ proc' = NoProc
    /\ UNCHANGED << log_content, df_logs, has_sql, parsed_columns, counters,
                    usage_stats, merged_stats, partition_columns,
                    partition_spec, trino_calls >>

(* ------------------------------------------------------------------ *)
(* Step 5: merge                                                      *)
(* ------------------------------------------------------------------ *)
\* usage_stats.merge(cardinality_df, on='column', how='left'): the rows of
\* usage_stats in their order, cardinality NaN where the dict has no key.
MergedStats(usage, card) ==
    [ i \in DOMAIN usage |->
        [ column |-> usage[i].column,
          counts |-> usage[i].counts,
          cardinality |-> DictGet(card, usage[i].column, Unknown) ] ]

MergeStats ==
    /\ pc = "cardinality"
    /\ idx = Len(usage_stats)
    /\ merged_stats' = MergedStats(usage_stats, cardinality)
    /\ idx' = 0
    /\ pc' = "classify"
    /\ UNCHANGED << log_content, df_logs, has_sql, parsed_columns, counters,
                    usage_stats, cardinality, proc, partition_columns,
                    partition_spec, trino_calls, stdout >>

(* ------------------------------------------------------------------ *)
(* Step 6: determine partition columns                                *)
(* ------------------------------------------------------------------ *)
\* A comparison with NaN is false.
Gt(c, n) == c.known /\ c.value > n
Lt(c, n) == c.known /\ c.value < n

\* row['where'] + row['join'] + row['group_by'] + row['order_by']
usage_count(row) ==
    row.counts["where"] + row.counts["join"] + row.counts["group_by"]
        + row.counts["order_by"]

\* Variant: the threshold test written with >=.
QualifiesAtThreshold(row) == usage_count(row) >= USAGE_THRESHOLD

Qualifies(row) == usage_count(row) > USAGE_THRESHOLD

\* Variant: the high-cardinality test written with >=.
StrategyAtThreshold(row) ==
    IF row.cardinality.known /\ row.cardinality.value >= HIGH_CARDINALITY_THRESHOLD
    THEN "hash"
    ELSE "range"

Strategy(row) ==
    IF Gt(row.cardinality, HIGH_CARDINALITY_THRESHOLD) THEN "hash"
    ELSE IF Lt(row.cardinality, LOW_CARDINALITY_THRESHOLD) THEN "range"
    ELSE "range"

\* One iteration of the loop over merged_stats.iterrows().
ClassifyRow ==
    /\ pc = "classify"
    /\ idx < Len(merged_stats)
    /\ LET row == merged_stats[idx + 1] IN
       partition_columns' =
           IF Qualifies(row)
           THEN Append(partition_columns,
                       [column |-> row.column, strategy |-> Strategy(row)])
           ELSE partition_columns
    /\ idx' = idx + 1
    /\ UNCHANGED << pc, log_content, df_logs, has_sql, parsed_columns,
                    counters, usage_stats, cardinality, proc, merged_stats,
                    partition_spec, trino_calls, stdout >>

(* ------------------------------------------------------------------ *)
(* Step 7: generate the partition spec                                *)
(* ------------------------------------------------------------------ *)
Separator == <<",">>

\* Variant: the hash token written without the space after the comma.
HashTokenNoSpace(column) ==
    <<"H", "A", "S", "H", "(">> \o column \o <<",">> \o BUCKET_COUNT \o <<")">>

HashToken(column) ==
    <<"H", "A", "S", "H", "(">> \o column \o <<",", " ">> \o BUCKET_COUNT \o <<")">>

RangeToken(column) == column

\* The list `spec` of generate_partition_spec.
RECURSIVE Tokens(_)
Tokens(pcs) ==
    IF pcs = << >> THEN << >>
    ELSE LET pc1 == Head(pcs) IN
         (IF pc1.strategy = "hash" THEN <<HashToken(pc1.column)>>
          ELSE IF pc1.strategy = "range" THEN <<RangeToken(pc1.column)>>
          ELSE << >>)
         \o Tokens(Tail(pcs))

\* sep.join(tokens)
RECURSIVE Join(_, _)
Join(sep, tokens) ==
    IF tokens = << >> THEN << >>
    ELSE IF Len(tokens) = 1 THEN tokens[1]
    ELSE tokens[1] \o sep \o Join(sep, Tail(tokens))

\* Variant: only the hash branch appends a token.
generate_partition_spec_hash_only(pcs) ==
    Join(Separator, Tokens(SelectSeq(pcs, LAMBDA d : d.strategy = "hash")))

generate_partition_spec(pcs) == Join(Separator, Tokens(pcs))

\* The end of the classification loop, generate_partition_spec and the
\* print of the recommendation.
GenerateSpec ==
    /\ pc = "classify"
    /\ idx = Len(merged_stats)
    /\ partition_spec' = generate_partition_spec(partition_columns)
    /\ stdout' = Append(stdout, <<"Recommended Partition Spec",
                                  generate_partition_spec(partition_columns)>>)
    /\ pc' = "apply"
    /\ UNCHANGED << log_content, df_logs, has_sql, parsed_columns, idx,
                    counters, usage_stats, cardinality, proc, merged_stats,
                    partition_columns, trino_calls >>

(* ------------------------------------------------------------------ *)
(* Step 8: alter table and optimize                                   *)
(* ------------------------------------------------------------------ *)
TABLE_NAME ==
    << "m", "y", "_", "c", "a", "t", "a", "l", "o", "g", ".", "m", "y",
       "_", "s", "c", "h", "e", "m", "a", ".", "m", "y", "_", "t", "a",
       "b", "l", "e" >>

\* `if partition_spec:` taken: alter_table_partitioning starts trino.
CallAlter ==
    /\ pc = "apply"
    /\ partition_spec # << >>
    /\ \E outcome \in DdlOutcomes : proc' = outcome
    /\ trino_calls' = Append(trino_calls, <<"alter", partition_spec>>)
    /\ pc' = "alter_wait"
    /\ UNCHANGED << log_content, df_logs, has_sql, parsed_columns, idx,
                    counters, usage_stats, cardinality, merged_stats,
                    partition_columns, partition_spec, stdout >>

\* `if partition_spec:` not taken.
ReportNone ==
    /\ pc = "apply"
    /\ partition_spec = << >>
    /\ stdout' = Append(stdout, <<"No suitable partition columns identified.", << >> >>)
    /\ pc' = "done"
    /\ UNCHANGED << log_content, df_logs, has_sql, parsed_columns, idx,
                    counters, usage_stats, cardinality, proc, merged_stats,
                    partition_columns, partition_spec, trino_calls >>

\* Variant: a failed ALTER sends main back to apply the spec again.
ReturnAlterRetry ==
    /\ pc = "alter_wait"
    /\ proc.kind # "hang"
    /\ IF proc.kind = "oserror"
       THEN /\ pc' = "aborted"
            /\ UNCHANGED stdout
       ELSE /\ pc' = IF proc.returncode = 0 THEN "optimize" ELSE "apply"
            /\ stdout' = Append(stdout,
                 IF proc.returncode = 0
                 THEN <<"Successfully altered partitioning", TABLE_NAME>>
                 ELSE <<"Error altering table", TABLE_NAME>>)
    /\ proc' = NoProc
    /\ UNCHANGED << log_content, df_logs, has_sql, parsed_columns, idx,
                    counters, usage_stats, cardinality, merged_stats,
                    partition_columns, partition_spec, trino_calls >>

\* alter_table_partitioning returns (or subprocess.run raises).
ReturnAlter ==
    /\ pc = "alter_wait"
    /\ proc.kind # "hang"
    /\ IF proc.kind = "oserror"
       THEN /\ pc' = "aborted"
            /\ UNCHANGED stdout
       ELSE /\ pc' = "optimize"
            /\ stdout' = Append(stdout,
                 IF proc.returncode = 0
                 THEN <<"Successfully altered partitioning", TABLE_NAME>>
                 ELSE <<"Error altering table", TABLE_NAME>>)
    /\ proc' = NoProc
    /\ UNCHANGED << log_content, df_logs, has_sql, parsed_columns, idx,
                    counters, usage_stats, cardinality, merged_stats,
                    partition_columns, partition_spec, trino_calls >>

\* optimize_table starts trino.
CallOptimize ==
    /\ pc = "optimize"
    /\ \E outcome \in DdlOutcomes : proc' = outcome
    /\ trino_calls' = Append(trino_calls, <<"optimize", TABLE_NAME>>)
    /\ pc' = "optimize_wait"
    /\ UNCHANGED << log_content, df_logs, has_sql, parsed_columns, idx,
                    counters, usage_stats, cardinality, merged_stats,
                    partition_columns, partition_spec, stdout >>

\* optimize_table returns (or subprocess.run raises); main ends.
ReturnOptimize ==
    /\ pc = "optimize_wait"
    /\ proc.kind # "hang"
    /\ IF proc.kind = "oserror"
       THEN /\ pc' = "aborted"
            /\ UNCHANGED stdout
       ELSE /\ pc' = "done"
            /\ stdout' = Append(stdout,
                 IF proc.returncode = 0
                 THEN <<"Optimization initiated", TABLE_NAME>>
                 ELSE <<"Error optimizing table", TABLE_NAME>>)
    /\ proc' = NoProc
    /\ UNCHANGED << log_content, df_logs, has_sql, parsed_columns, idx,
                    counters, usage_stats, cardinality, merged_stats,
                    partition_columns, partition_spec, trino_calls >>

(* ------------------------------------------------------------------ *)
(* The run of main                                                    *)
(* ------------------------------------------------------------------ *)
Next ==
    \/ DownloadLogs
    \/ ParseLogs
    \/ ExtractColumns
    \/ AggregateRow
    \/ BuildUsageStats
    \/ CallCardinality
    \/ ReturnCardinality
    \/ MergeStats
    \/ ClassifyRow
    \/ GenerateSpec
    \/ CallAlter
    \/ ReportNone
    \/ ReturnAlter
    \/ CallOptimize
    \/ ReturnOptimize

Spec == Init /\ [][Next]_vars

(* ------------------------------------------------------------------ *)
(* generate_partition_spec on arbitrary decision lists                *)
(* ------------------------------------------------------------------ *)
RenderNames == Cols \cup { <<"H", "A", "S", "H">>, <<"t", ".", "c", "1", "6">> }

Decisions == [column : RenderNames, strategy : {"hash", "range"}]

DecisionLists == SeqsUpTo(Decisions, MaxDecisions)

\* main at line 136 with some decision list in partition_columns.
RenderInit ==
    /\ pc = "classify"
    /\ partition_columns \in DecisionLists
    /\ log_content = << >>
    /\ df_logs = << >>
    /\ has_sql = FALSE
    /\ parsed_columns = << >>
    /\ idx = 0
    /\ counters = EmptyCounters
    /\ usage_stats = << >>
    /\ cardinality = << >>
    /\ proc = NoProc
    /\ merged_stats = << >>
    /\ partition_spec = << >>
    /\ trino_calls = << >>
    /\ stdout = << >>

RenderNext == GenerateSpec

RenderSpec == RenderInit /\ [][RenderNext]_vars

(* ------------------------------------------------------------------ *)
(* What the properties speak about                                    *)
(* ------------------------------------------------------------------ *)
\* Occurrences of a column in a role over a sequence of usage records,
\* counted from the records themselves.
TotalOccurrences(records, col, role) ==
    LET upto[n \in 0..Len(records)] ==
          IF n = 0 THEN 0
          ELSE upto[n - 1] + Occurrences(records[n][role], col)
    IN upto[Len(records)]

FilterUsage(records, col) ==
    TotalOccurrences(records, col, "where") + TotalOccurrences(records, col, "join")
      + TotalOccurrences(records, col, "group_by")
      + TotalOccurrences(records, col, "order_by")

Observed(records, col) ==
    \E i \in DOMAIN records : \E r \in Range(Roles) : col \in Range(records[i][r])

Called(kind) == { i \in DOMAIN trino_calls : trino_calls[i][1] = kind }

Printed(msg) == \E i \in DOMAIN stdout : stdout[i][1] = msg

\* usage_stats has been built (an abort after that point is an abort of a
\* trino call).
UsageBuilt ==
    \/ pc \in { "cardinality", "cardinality_wait", "classify", "apply",
                "alter_wait", "optimize", "optimize_wait", "done" }
    \/ pc = "aborted" /\ trino_calls # << >>

\* The rows of merged_stats the classification loop has gone through.
ClassifiedRows == IF pc = "classify" THEN idx ELSE Len(merged_stats)

DecisionsFor(col) ==
    { j \in DOMAIN partition_columns : partition_columns[j].column = col }

\* The step after the print of the recommendation has been taken.
PastApply == Printed("Recommended Partition Spec") /\ pc # "apply"

(* ------------------------------------------------------------------ *)
(* C1                                                                 *)
(* ------------------------------------------------------------------ *)
\* C1: a classified column has a decision if and only if its where + join +
\* group_by + order_by occurrences over the log exceed the usage threshold
\* (50 excluded, 51 included); select occurrences do not count, so a column
\* with no filter-role occurrence has no decision.
C1_DecisionIffFilterUsageAboveThreshold ==
    /\ \A i \in 1..ClassifiedRows :
         LET col == merged_stats[i].column IN
         (DecisionsFor(col) # {}) <=> (FilterUsage(parsed_columns, col) > USAGE_THRESHOLD)
    /\ \A col \in Cols :
         FilterUsage(parsed_columns, col) = 0 => DecisionsFor(col) = {}

\* A run that classified a column used exactly 50 times in filter roles (no
\* decision), a column used 51 times (decision), one of them referenced in
\* select as well.
C1_Witness ==
    /\ pc = "done"
    /\ \E a, b \in Cols :
         /\ FilterUsage(parsed_columns, a) = USAGE_THRESHOLD
         /\ DecisionsFor(a) = {}
         /\ FilterUsage(parsed_columns, b) = USAGE_THRESHOLD + 1
         /\ DecisionsFor(b) # {}
         /\ TotalOccurrences(parsed_columns, a, "select") > 0

(* ------------------------------------------------------------------ *)
(* C2                                                                 *)
(* ------------------------------------------------------------------ *)
\* C2: every classified column above the usage threshold has exactly one
\* decision, hash if and only if its measured cardinality is known and
\* greater than 100,000 and range otherwise; no other strategy is emitted.
C2_HashIffHighCardinality ==
    /\ \A i \in 1..ClassifiedRows :
         LET col == merged_stats[i].column
             card == DictGet(cardinality, col, Unknown)
         IN FilterUsage(parsed_columns, col) > USAGE_THRESHOLD =>
              /\ Cardinality(DecisionsFor(col)) = 1
              /\ \A j \in DecisionsFor(col) :
                   IF card.known /\ card.value > HIGH_CARDINALITY_THRESHOLD
                   THEN partition_columns[j].strategy = "hash"
                   ELSE partition_columns[j].strategy = "range"
    /\ \A j \in DOMAIN partition_columns :
         partition_columns[j].strategy \in {"hash", "range"}

\* A finished run with a hash decision for a column measured at 100,001 and
\* a range decision for a column measured at exactly 100,000.
C2_Witness ==
    /\ pc = "done"
    /\ \E j, k \in DOMAIN partition_columns :
         /\ partition_columns[j].strategy = "hash"
         /\ DictGet(cardinality, partition_columns[j].column, Unknown)
              = Known(HIGH_CARDINALITY_THRESHOLD + 1)
         /\ partition_columns[k].strategy = "range"
         /\ DictGet(cardinality, partition_columns[k].column, Unknown)
              = Known(HIGH_CARDINALITY_THRESHOLD)

\* The range side of C2 at the low threshold: a finished run with range
\* decisions for columns measured at 1,000 and at 999.
C2_LowBoundaryReached ==
    /\ pc = "done"
    /\ \E j, k \in DOMAIN partition_columns :
         /\ partition_columns[j].strategy = "range"
         /\ DictGet(cardinality, partition_columns[j].column, Unknown)
              = Known(LOW_CARDINALITY_THRESHOLD)
         /\ partition_columns[k].strategy = "range"
         /\ DictGet(cardinality, partition_columns[k].column, Unknown)
              = Known(LOW_CARDINALITY_THRESHOLD - 1)

(* ------------------------------------------------------------------ *)
(* C3                                                                 *)
(* ------------------------------------------------------------------ *)
\* The part of C3 about a measurement main did not keep: a classified
\* column above the usage threshold with no entry in the cardinality dict
\* has exactly one decision, and it is range.
C3_UnknownIsRange ==
    \A i \in 1..ClassifiedRows :
      LET col == merged_stats[i].column IN
      (FilterUsage(parsed_columns, col) > USAGE_THRESHOLD /\ ~DictHas(cardinality, col))
        => /\ Cardinality(DecisionsFor(col)) = 1
           /\ \A j \in DecisionsFor(col) : partition_columns[j].strategy = "range"

\* C3: a cardinality call that fails (the trino call cannot be executed, a
\* non-zero exit status, a non-numeric output) never aborts the run; the
\* measurement is unknown and a column above the usage threshold is still
\* emitted, as range.
C3_CardinalityFailureIsUnknown ==
    /\ (pc = "aborted" /\ trino_calls # << >>)
          => trino_calls[Len(trino_calls)][1] # "count"
    /\ C3_UnknownIsRange

(* ------------------------------------------------------------------ *)
(* C4                                                                 *)
(* ------------------------------------------------------------------ *)
RecordOrders(n) ==
    { f \in [1..n -> 1..n] : \A i, j \in 1..n : f[i] = f[j] => i = j }

\* The aggregation loop and the construction of usage_stats on a record
\* sequence.
RECURSIVE AggregateAll(_)
AggregateAll(records) ==
    IF records = << >> THEN EmptyCounters
    ELSE LET n == Len(records)
             before == AggregateAll(SubSeq(records, 1, n - 1))
         IN [r \in Range(Roles) |-> CounterUpdate(before[r], records[n][r])]

\* Usage totals as a mapping from column to its five counters.
Totals(stats) ==
    [ col \in { stats[i].column : i \in DOMAIN stats } |->
        stats[CHOOSE i \in DOMAIN stats : stats[i].column = col].counts ]

RowsOf(col) == { i \in DOMAIN usage_stats : usage_stats[i].column = col }

\* usage_stats has just been built from the Counters.
UsageJustBuilt == pc = "cardinality" /\ idx = 0

\* C4: the counter of each (column, role) in the usage totals is the number
\* of occurrences of the column in that role over all records, duplicates
\* within a record counted; a column of no record has no row; and the
\* totals the aggregation has built are those it builds from every
\* permutation of the records.  During the loop the Counters hold the
\* counts of the records consumed so far.
C4_CountPreserving ==
    /\ pc = "aggregate" =>
         \A col \in Cols : \A r \in Range(Roles) :
           DictGet(counters[r], col, 0)
             = TotalOccurrences(SubSeq(parsed_columns, 1, idx), col, r)
    /\ UsageBuilt =>
         \A col \in Cols :
           IF Observed(parsed_columns, col)
           THEN /\ Cardinality(RowsOf(col)) = 1
                /\ \A i \in RowsOf(col) : \A r \in Range(Roles) :
                     usage_stats[i].counts[r]
                       = TotalOccurrences(parsed_columns, col, r)
           ELSE RowsOf(col) = {}
    /\ UsageJustBuilt =>
         \A p \in RecordOrders(Len(parsed_columns)) :
           Totals(UsageStats(AggregateAll(
               [i \in DOMAIN parsed_columns |-> parsed_columns[p[i]]])))
             = Totals(usage_stats)

\* Usage totals built from two different records that share a column, one
\* of them naming a column twice in one role.
C4_Witness ==
    /\ UsageJustBuilt
    /\ Len(parsed_columns) = 2
    /\ parsed_columns[1] # parsed_columns[2]
    /\ \E col \in Cols : \E r \in Range(Roles) :
         /\ Occurrences(parsed_columns[1][r], col) > 1
         /\ Occurrences(parsed_columns[2][r], col) > 0
         /\ \E i \in RowsOf(col) : usage_stats[i].counts[r] > USAGE_THRESHOLD

(* ------------------------------------------------------------------ *)
(* Reading a spec string back                                         *)
(* ------------------------------------------------------------------ *)
Count(s, ch, upto) == Cardinality({ i \in 1..upto : s[i] = ch })

\* The positions of the commas of s that are outside parentheses.
TopLevelCommas(s) ==
    LET IsTop(i) == s[i] = "," /\ Count(s, "(", i) = Count(s, ")", i)
    IN SelectSeq([i \in DOMAIN s |-> i], IsTop)

SplitTopLevel(s) ==
    IF s = << >> THEN << >>
    ELSE LET cuts == <<0>> \o TopLevelCommas(s) \o <<Len(s) + 1>>
         IN [k \in 1..(Len(cuts) - 1) |-> SubSeq(s, cuts[k] + 1, cuts[k + 1] - 1)]

HashOpen == <<"H", "A", "S", "H", "(">>
HashClose == <<",", " ", "1", "6", ")">>

ReadToken(tok) ==
    IF /\ Len(tok) > Len(HashOpen) + Len(HashClose)
       /\ SubSeq(tok, 1, Len(HashOpen)) = HashOpen
       /\ SubSeq(tok, Len(tok) - Len(HashClose) + 1, Len(tok)) = HashClose
    THEN [column |-> SubSeq(tok, Len(HashOpen) + 1, Len(tok) - Len(HashClose)),
          strategy |-> "hash"]
    ELSE [column |-> tok, strategy |-> "range"]

ReadSpec(s) ==
    LET toks == SplitTopLevel(s) IN [k \in DOMAIN toks |-> ReadToken(toks[k])]

(* ------------------------------------------------------------------ *)
(* C5                                                                 *)
(* ------------------------------------------------------------------ *)
FirstPosition(list, col) ==
    CHOOSE j \in DOMAIN list : list[j] = col /\ \A k \in 1..(j - 1) : list[k] # col

\* Where a column occurs first in each list that names it:
\* <<record, role, position>>.
ObservationsOf(records, col) ==
    { <<t[1], t[2], FirstPosition(records[t[1]][Roles[t[2]]], col)>> :
        t \in { u \in (DOMAIN records) \X (DOMAIN Roles) :
                  col \in Range(records[u[1]][Roles[u[2]]]) } }

Lex(a, b) ==
    \/ a[1] < b[1]
    \/ a[1] = b[1] /\ a[2] < b[2]
    \/ a[1] = b[1] /\ a[2] = b[2] /\ a[3] < b[3]

\* Scanning the records in log order, the roles of a record in the order
\* main counts them.
LogOrderBefore(t, u) == Lex(t, u)

\* Scanning role by role (select over the whole log, then where, ...).
RoleMajorBefore(t, u) == Lex(<<t[2], t[1], t[3]>>, <<u[2], u[1], u[3]>>)

FirstBy(Before(_, _), S) == CHOOSE t \in S : \A u \in S : u = t \/ Before(t, u)

\* The tokens of the printed spec name the decisions' columns in list order.
TokensFollowDecisions ==
    Printed("Recommended Partition Spec") =>
      [k \in DOMAIN ReadSpec(partition_spec) |-> ReadSpec(partition_spec)[k].column]
        = [k \in DOMAIN partition_columns |-> partition_columns[k].column]

DecisionsOrderedBy(Before(_, _)) ==
    \A j, k \in DOMAIN partition_columns :
      LET a == partition_columns[j].column
          b == partition_columns[k].column
      IN Before(FirstBy(Before, ObservationsOf(parsed_columns, a)),
                FirstBy(Before, ObservationsOf(parsed_columns, b)))
           => j < k

\* C5 as stated: decisions (and the tokens of the spec string) are in the
\* order in which their columns were first observed scanning the records in
\* log order.
C5_LogOrder ==
    DecisionsOrderedBy(LogOrderBefore) /\ TokensFollowDecisions

\* C5 amended: decisions (and the tokens of the spec string) are in the row
\* order of usage_stats, which is role-major: the columns seen in select in
\* the order of their first select occurrence, then the columns first seen
\* in where, then join, group_by, order_by.
C5_RoleMajorOrder ==
    DecisionsOrderedBy(RoleMajorBefore) /\ TokensFollowDecisions

\* Two decided columns whose role-major order is the reverse of their
\* log order, with the spec string printed.
C5_Witness ==
    /\ Printed("Recommended Partition Spec")
    /\ \E j, k \in DOMAIN partition_columns :
         LET oa == ObservationsOf(parsed_columns, partition_columns[j].column)
             ob == ObservationsOf(parsed_columns, partition_columns[k].column)
         IN /\ j < k
            /\ RoleMajorBefore(FirstBy(RoleMajorBefore, oa), FirstBy(RoleMajorBefore, ob))
            /\ LogOrderBefore(FirstBy(LogOrderBefore, ob), FirstBy(LogOrderBefore, oa))

(* ------------------------------------------------------------------ *)
(* C6                                                                 *)
(* ------------------------------------------------------------------ *)
DdlFailureReports == { "Error altering table", "Error optimizing table" }

\* C6: once main is past `if partition_spec:`, alter_table_partitioning has
\* been invoked if and only if there is at least one decision, and it was
\* given the non-empty spec string; with no decision the spec string is
\* empty, no DDL call is made and the run ends with "No suitable partition
\* columns identified.", which no run with a DDL call prints.
C6_AlterIffDecisions ==
    /\ PastApply => ((Called("alter") # {}) <=> (partition_columns # << >>))
    /\ \A i \in Called("alter") :
         /\ partition_columns # << >>
         /\ trino_calls[i][2] # << >>
         /\ trino_calls[i][2] = partition_spec
    /\ (PastApply /\ partition_columns = << >>) =>
         /\ partition_spec = << >>
         /\ Called("alter") = {} /\ Called("optimize") = {}
         /\ pc = "done"
         /\ stdout[Len(stdout)][1] = "No suitable partition columns identified."
         /\ \A m \in DdlFailureReports : ~Printed(m)
    /\ Printed("No suitable partition columns identified.") =>
         (partition_columns = << >> /\ Called("alter") = {})
    /\ Called("optimize") # {} => Called("alter") # {}

\* A finished run over a log with columns of which none cleared the
\* threshold.
C6_Witness ==
    /\ pc = "done"
    /\ usage_stats # << >>
    /\ partition_columns = << >>
    /\ Printed("No suitable partition columns identified.")

\* The other side of C6: a run whose ALTER failed, which reports the
\* failure and not "No suitable partition columns identified.".
C6_AlterFailureReached ==
    /\ Printed("Error altering table")
    /\ ~Printed("No suitable partition columns identified.")

(* ------------------------------------------------------------------ *)
(* C7                                                                 *)
(* ------------------------------------------------------------------ *)
Malformed(line) == ~line.json \/ ~line.sql.parses

\* The usage records of the entries of the log that can be processed.
GoodRecords(lines) ==
    LET good == SelectSeq(lines, LAMBDA l : ~Malformed(l))
    IN [i \in DOMAIN good |-> extract_columns_metadata(good[i].sql)]

\* C7: a log with an entry that cannot be processed (not JSON, or SQL the
\* parser cannot handle) does not abort the run in the extraction, and the
\* usage totals are those of the other entries.
C7_MalformedEntriesDropped ==
    (\E i \in DOMAIN log_content : Malformed(log_content[i])) =>
      /\ ~(pc = "aborted" /\ trino_calls = << >>)
      /\ UsageBuilt =>
           \A col \in Cols : \A r \in Range(Roles) :
             /\ Cardinality(RowsOf(col)) <= 1
             /\ \A i \in RowsOf(col) :
                  usage_stats[i].counts[r]
                    = TotalOccurrences(GoodRecords(log_content), col, r)

\* What the code does keep of C7: a line json.loads rejects is dropped when
\* another line of the log is a well-formed entry.
C7_NonJsonLineDropped ==
    (/\ \E i \in DOMAIN log_content : ~log_content[i].json
     /\ \E i \in DOMAIN log_content : log_content[i].json
     /\ \A i \in DOMAIN log_content : log_content[i].json => log_content[i].sql.parses)
      => /\ pc # "aborted" \/ trino_calls # << >>
         /\ UsageBuilt =>
              \A col \in Cols : \A r \in Range(Roles) : \A i \in RowsOf(col) :
                usage_stats[i].counts[r]
                  = TotalOccurrences(GoodRecords(log_content), col, r)

(* ------------------------------------------------------------------ *)
(* C8                                                                 *)
(* ------------------------------------------------------------------ *)
ExampleDecisions ==
    << [column |-> ColA, strategy |-> "hash"], [column |-> ColB, strategy |-> "range"] >>

ExampleSpec ==
    <<"H", "A", "S", "H", "(", "i", "d", ",", " ", "1", "6", ")", ",", "t", "s">>

\* C8: the spec string generate_partition_spec returns has one top-level
\* token per decision, in list order, HASH(<column>, 16) for hash and the
\* bare column for range, separated by single commas; it is empty exactly
\* for the empty list; reading it back gives the decision list; and
\* [(id, hash), (ts, range)] gives HASH(id, 16),ts.
C8_RenderRoundTrip ==
    pc = "apply" =>
      /\ ReadSpec(partition_spec) = partition_columns
      /\ (partition_spec = << >>) <=> (partition_columns = << >>)
      /\ LET toks == SplitTopLevel(partition_spec) IN
         /\ Len(toks) = Len(partition_columns)
         /\ \A k \in DOMAIN toks :
              toks[k] = IF partition_columns[k].strategy = "hash"
                        THEN HashOpen \o partition_columns[k].column \o HashClose
                        ELSE partition_columns[k].column
      /\ partition_columns = ExampleDecisions => partition_spec = ExampleSpec

\* generate_partition_spec has rendered [(id, hash), (ts, range)].
C8_Witness ==
    /\ pc = "apply"
    /\ partition_columns = ExampleDecisions
    /\ partition_spec = ExampleSpec

(* ------------------------------------------------------------------ *)
(* C9                                                                 *)
(* ------------------------------------------------------------------ *)
\* C9: a cardinality call in progress never blocks the run: whatever the
\* query engine does, the call can end (with a result, or by its timeout as
\* unknown) and main can go on.
C9_CardinalityCallEnds ==
    pc = "cardinality_wait" => ENABLED Next

(* ------------------------------------------------------------------ *)
(* C10                                                                *)
(* ------------------------------------------------------------------ *)
\* C10: in every step of a run, ALTER and OPTIMIZE have each been invoked at
\* most once; OPTIMIZE is invoked only when ALTER has been invoked and has
\* returned; and once the spec string is built (printed), neither it nor the
\* decision list changes, and it is the string ALTER was given.
C10_SingleAttemptOrdered ==
    [][ /\ Cardinality(Called("alter")') <= 1
        /\ Cardinality(Called("optimize")') <= 1
        /\ Called("optimize")' # Called("optimize") =>
             /\ Called("alter") # {}
             /\ pc = "optimize" /\ proc = NoProc
             /\ Printed("Successfully altered partitioning")
                  \/ Printed("Error altering table")
        /\ Printed("Recommended Partition Spec") =>
             /\ partition_spec' = partition_spec
             /\ partition_columns' = partition_columns
        /\ \A i \in Called("alter")' : trino_calls'[i][2] = partition_spec'
      ]_vars

\* A finished run whose ALTER failed and whose OPTIMIZE failed.
C10_Witness ==
    /\ pc = "done"
    /\ Printed("Error altering table")
    /\ Printed("Error optimizing table")
    /\ Cardinality(Called("alter")) = 1
    /\ Cardinality(Called("optimize")) = 1

====
